---- MODULE Spec2Model ----
(***************************************************************************)
(* Model of the generation endpoints of app.py (AIHawk Resume Builder).    *)
(*                                                                         *)
(* The three POST handlers are `async def` functions without any await, so *)
(* the event loop runs each request to completion before the next one      *)
(* starts.  The model therefore has one handler activation at a time, cut  *)
(* into the statements of the handler, and the state that outlives a       *)
(* request: the environment, the style registry and global_config.         *)
(***************************************************************************)
EXTENDS Integers, Sequences, FiniteSets, TLC

\* ------------------------------------------------------------------ bounds
MaxNameLen == 1
MaxStyles == 2

\* ------------------------------------------------------------ value spaces
None == "None"

Chars == {"A", "a", "b"}

\* str.lower() on the characters of the model alphabet
LowerChar(c) == IF c = "A" THEN "a" ELSE c

lower(s) == [i \in DOMAIN s |-> LowerChar(s[i])]

\* Python's `needle in hay` on strings
Contains(hay, needle) ==
    \E i \in 0..(Len(hay) - Len(needle)) :
        SubSeq(hay, i + 1, i + Len(needle)) = needle

\* Python truthiness of an Optional[str]
Truthy(x) == x /= None /\ x /= ""

\* Python's `a or b`
PyOr(a, b) == IF Truthy(a) THEN a ELSE b

StrOfLen(n) == [1..n -> Chars]

StyleNames == UNION {StrOfLen(n) : n \in 1..MaxNameLen}

\* a requested name may be empty, and may be longer than every registered name
RequestedNames == UNION {StrOfLen(n) : n \in 0..(MaxNameLen + 1)}

\* one entry of StyleManager.get_styles(): name -> (file_name, author_link)
StyleEntry(n) == [name |-> n, file_name |-> <<"css">> \o n]

\* the dicts get_styles() can return: insertion-ordered, keys distinct
Registries ==
    {[i \in DOMAIN g |-> StyleEntry(g[i])] :
        g \in {h \in UNION {[1..m -> StyleNames] : m \in 0..MaxStyles} :
                  \A i, j \in DOMAIN h : i /= j => h[i] /= h[j]}}

\* the files the entries of a registry name
RegistryFiles(reg) == {reg[i].file_name : i \in DOMAIN reg}

ExampleStyles == <<StyleEntry(<<"A", "b">>), StyleEntry(<<"b", "a">>)>>

MainRegistries == {<<>>, ExampleStyles}

MainStyleNames == {<<"a">>, <<"b", "a">>, <<"b", "b">>}

Endpoints == {"resume", "resume-tailored", "cover-letter"}

RequestKeys == {None, "", "request_key"}

Environs ==
    [OPENAI_API_KEY : {None, "", "openai_key"}, LLM_API_KEY : {None, "llm_key"}]

ResumeYamls == {"", "{{: not yaml", "education_details: []",
                "personal_information: {name: A}"}

JobDescriptions == {"", "job text"}

\* --------------------------------------------------------------- exceptions
NoExc == [type |-> "none", status_code |-> 0, detail |-> ""]

HTTPException(code, msg) ==
    [type |-> "HTTPException", status_code |-> code, detail |-> msg]

PyException(msg) == [type |-> "Exception", status_code |-> 0, detail |-> msg]

Returned(v) == [raised |-> FALSE, value |-> v, exc |-> NoExc]

Raised(e) == [raised |-> TRUE, value |-> None, exc |-> e]

NoHtml == <<>>

NoPath == <<>>

NoResume == {}

NoResponse == [status_code |-> 0, success |-> FALSE, html |-> NoHtml,
               message |-> ""]

NoRequest == [endpoint |-> "resume", resume_yaml |-> "", job_description |-> None,
              style |-> <<>>, api_key |-> None]

UnsetConfig == [initialized |-> FALSE, API_KEY |-> None]

VARIABLES environ, styles, style_files, global_config, request, pc, api_key, style_path,
          resume_object, style_css, strings, body_html, full_html, exc,
          response, steps, calls, loads

vars == <<environ, styles, style_files, global_config, request, pc, api_key, style_path,
          resume_object, style_css, strings, body_html, full_html, exc,
          response, steps, calls, loads>>

\* what a request only reads: the environment, the registry, the style files
deployment == <<environ, styles, style_files>>

\* the locals of the running handler
locals == <<api_key, style_path, resume_object, style_css, strings, body_html,
            full_html>>

\* ------------------------------------------------------------ pure helpers

\* get_api_key with the operands of `or` in the wrong order: the environment
\* wins over the request
get_api_key_env_first(request_key) ==
    LET key == PyOr(PyOr(environ.OPENAI_API_KEY, environ.LLM_API_KEY),
                    request_key)
    IN  IF ~Truthy(key)
        THEN Raised(HTTPException(400, "API key required"))
        ELSE Returned(key)

\* get_api_key: request_key or OPENAI_API_KEY or LLM_API_KEY, else 400
get_api_key(request_key) ==
    LET key == PyOr(PyOr(request_key, environ.OPENAI_API_KEY),
                    environ.LLM_API_KEY)
    IN  IF ~Truthy(key)
        THEN Raised(HTTPException(400, "API key required"))
        ELSE Returned(key)

\* the for loop of get_style_path from index i on: the first entry whose
\* lowered name contains the lowered requested name
RECURSIVE FirstMatchFrom(_, _, _)
FirstMatchFrom(reg, style_name, i) ==
    IF i > Len(reg) THEN 0
    ELSE IF Contains(lower(reg[i].name), lower(style_name)) THEN i
    ELSE FirstMatchFrom(reg, style_name, i + 1)

\* the loop without the two .lower() calls
RECURSIVE FirstExactFrom(_, _, _)
FirstExactFrom(reg, style_name, i) ==
    IF i > Len(reg) THEN 0
    ELSE IF Contains(reg[i].name, style_name) THEN i
    ELSE FirstExactFrom(reg, style_name, i + 1)

\* get_style_path comparing case-sensitively
get_style_path_case_sensitive(reg, style_name) ==
    LET m == FirstExactFrom(reg, style_name, 1)
    IN  IF m /= 0 THEN Returned(reg[m].file_name)
        ELSE IF reg /= <<>> THEN Returned(reg[1].file_name)
        ELSE Raised(HTTPException(404, "Style not found"))

\* get_style_path raising a plain exception on an empty registry
get_style_path_plain_error(reg, style_name) ==
    LET m == FirstMatchFrom(reg, style_name, 1)
    IN  IF m /= 0 THEN Returned(reg[m].file_name)
        ELSE IF reg /= <<>> THEN Returned(reg[1].file_name)
        ELSE Raised(PyException("no styles"))

get_style_path(reg, style_name) ==
    LET m == FirstMatchFrom(reg, style_name, 1)
    IN  IF m /= 0 THEN Returned(reg[m].file_name)
        ELSE IF reg /= <<>> THEN Returned(reg[1].file_name)
        ELSE Raised(HTTPException(404, "Style not found"))

\* yaml.safe_load on the request texts of the model: the set of top-level
\* keys of a mapping, "error" for a syntax error, None for an empty document
YamlLoad(text) ==
    CASE text = "" -> [kind |-> "none", keys |-> {}]
      [] text = "{{: not yaml" -> [kind |-> "error", keys |-> {}]
      [] text = "education_details: []" ->
            [kind |-> "mapping", keys |-> {"education_details"}]
      [] OTHER -> [kind |-> "mapping", keys |-> {"personal_information"}]

\* Resume(resume_yaml): fails on a syntax error, a non-mapping document and a
\* mapping without personal_information
Resume(resume_yaml) ==
    LET doc == YamlLoad(resume_yaml)
    IN  IF doc.kind /= "mapping" THEN Raised(PyException("not a mapping"))
        ELSE IF "personal_information" \notin doc.keys
        THEN Raised(PyException("personal_information missing"))
        ELSE Returned(doc.keys)

\* the arguments each endpoint passes to generate_html_from_resume
ArgJobDescription(req) ==
    IF req.endpoint = "resume" THEN None ELSE req.job_description

ArgIsCoverLetter(req) == req.endpoint = "cover-letter"

\* the if / elif / else of generate_html_from_resume
SelectKind(job_description, is_cover_letter) ==
    IF is_cover_letter /\ Truthy(job_description) THEN "CoverLetter"
    ELSE IF Truthy(job_description) THEN "TailoredResume"
    ELSE "BaseResume"

\* generate_html_resume() / generate_cover_letter(): one request to the
\* completion service per call; n is the number of requests made before it
CompletionCalls(n) == n + 1

\* the text of the style file at a path
FileText(path) == <<"/*">> \o path \o <<"*/">>

\* Template(html_template).substitute(body=..., style_css=...)
Substitute(body, css) ==
    <<"<html><style>">> \o css \o <<"</style>">> \o body \o <<"</html>">>

Fragment == <<"<body>", "X", "</body>">>

SuccessMessage(endpoint) ==
    CASE endpoint = "resume" -> "Resume generated successfully"
      [] endpoint = "resume-tailored" -> "Tailored resume generated successfully"
      [] OTHER -> "Cover letter generated successfully"

\* the endpoints without `except HTTPException: raise`
EndpointCatch_rewrap(e) == HTTPException(500, e.detail)

\* the except clauses of the endpoints: an HTTPException passes through, any
\* other exception becomes a 500 carrying str(e)
EndpointCatch(e) ==
    IF e.type = "HTTPException" THEN e
    ELSE HTTPException(500, e.detail)

\* the statements with the prompt module loaded before the resume is parsed
StepAfter_template_first(step) ==
    CASE step = "ReceiveRequest" -> "ValidateInput"
      [] step = "ValidateInput" -> "ResolveStyle"
      [] step = "ResolveStyle" -> "InitConfig"
      [] step = "InitConfig" -> "LoadTemplate"
      [] step = "LoadTemplate" -> "ParseResume"
      [] step = "ParseResume" -> "ReadStyle"
      [] step = "ReadStyle" -> "InvokeModel"
      [] step = "InvokeModel" -> "AssemblePage"
      [] step = "AssemblePage" -> "RespondSuccess"
      [] OTHER -> "Done"

\* the statement order of the endpoint and of generate_html_from_resume:
\* the step that follows a step that did not raise
StepAfter(step) ==
    CASE step = "ReceiveRequest" -> "ValidateInput"
      [] step = "ValidateInput" -> "ResolveStyle"
      [] step = "ResolveStyle" -> "InitConfig"
      [] step = "InitConfig" -> "ParseResume"
      [] step = "ParseResume" -> "ReadStyle"
      [] step = "ReadStyle" -> "LoadTemplate"
      [] step = "LoadTemplate" -> "InvokeModel"
      [] step = "InvokeModel" -> "AssemblePage"
      [] step = "AssemblePage" -> "RespondSuccess"
      [] OTHER -> "Done"

\* ------------------------------------------------------------------- state

Init ==
    /\ environ \in Environs
    /\ styles \in MainRegistries
    /\ style_files \in SUBSET RegistryFiles(styles)
    /\ global_config = UnsetConfig
    /\ request = NoRequest
    /\ pc = "Idle"
    /\ api_key = None
    /\ style_path = NoPath
    /\ resume_object = NoResume
    /\ style_css = NoHtml
    /\ strings = None
    /\ body_html = NoHtml
    /\ full_html = NoHtml
    /\ exc = NoExc
    /\ response = NoResponse
    /\ steps = <<>>
    /\ calls = 0
    /\ loads = 0

\* a statement of the handler completed: go on with the next one
Continue(step) ==
    /\ pc' = StepAfter(step)
    /\ steps' = Append(steps, step)
    /\ exc' = exc

\* a statement of the handler raised e: control leaves for the except clauses
Raise(step, e) ==
    /\ pc' = "RespondError"
    /\ steps' = Append(steps, step)
    /\ exc' = e

\* the framework calls the endpoint with a validated request body
Receive(endpoint, jds) ==
    /\ pc \in {"Idle", "Done"}
    /\ \E y \in ResumeYamls, jd \in jds, st \in MainStyleNames, k \in RequestKeys :
          request' = [endpoint |-> endpoint, resume_yaml |-> y,
                      job_description |-> jd, style |-> st, api_key |-> k]
    /\ pc' = StepAfter("ReceiveRequest")
    /\ steps' = <<"ReceiveRequest">>
    /\ api_key' = None
    /\ style_path' = NoPath
    /\ resume_object' = NoResume
    /\ style_css' = NoHtml
    /\ strings' = None
    /\ body_html' = NoHtml
    /\ full_html' = NoHtml
    /\ exc' = NoExc
    /\ response' = NoResponse
    /\ calls' = 0
    /\ loads' = 0
    /\ UNCHANGED <<deployment, global_config>>

generate_resume == Receive("resume", {None})

generate_tailored_resume == Receive("resume-tailored", JobDescriptions)

generate_cover_letter == Receive("cover-letter", JobDescriptions)

\* api_key = get_api_key(request.api_key)
ValidateInput ==
    /\ pc = "ValidateInput"
    /\ LET r == get_api_key(request.api_key)
       IN  IF r.raised
           THEN /\ Raise("ValidateInput", r.exc)
                /\ api_key' = api_key
           ELSE /\ Continue("ValidateInput")
                /\ api_key' = r.value
    /\ UNCHANGED <<deployment, global_config, request, style_path,
                   resume_object, style_css, strings, body_html, full_html,
                   response, calls, loads>>

\* style_path = get_style_path(request.style)
ResolveStyle ==
    /\ pc = "ResolveStyle"
    /\ LET r == get_style_path(styles, request.style)
       IN  IF r.raised
           THEN /\ Raise("ResolveStyle", r.exc)
                /\ style_path' = style_path
           ELSE /\ Continue("ResolveStyle")
                /\ style_path' = r.value
    /\ UNCHANGED <<deployment, global_config, request, api_key,
                   resume_object, style_css, strings, body_html, full_html,
                   response, calls, loads>>

\* init_global_config(api_key), the first statement of generate_html_from_resume
init_global_config ==
    /\ pc = "InitConfig"
    /\ global_config' = [initialized |-> TRUE, API_KEY |-> api_key]
    /\ Continue("InitConfig")
    /\ UNCHANGED <<deployment, request, locals, response, calls, loads>>

\* ParseResume with the exception swallowed: generation goes on without a resume
ParseResume_swallow ==
    /\ pc = "ParseResume"
    /\ LET r == Resume(request.resume_yaml)
       IN  /\ Continue("ParseResume")
           /\ resume_object' = IF r.raised THEN resume_object ELSE r.value
    /\ UNCHANGED <<deployment, global_config, request, api_key, style_path,
                   style_css, strings, body_html, full_html, response, calls,
                   loads>>

\* resume_object = Resume(resume_yaml); any exception becomes a 400
ParseResume ==
    /\ pc = "ParseResume"
    /\ LET r == Resume(request.resume_yaml)
       IN  IF r.raised
           THEN /\ Raise("ParseResume", HTTPException(400, "Invalid resume YAML"))
                /\ resume_object' = resume_object
           ELSE /\ Continue("ParseResume")
                /\ resume_object' = r.value
    /\ UNCHANGED <<deployment, global_config, request, api_key, style_path,
                   style_css, strings, body_html, full_html, response, calls,
                   loads>>

\* open(style_path).read(); a missing file becomes a 404
ReadStyle ==
    /\ pc = "ReadStyle"
    /\ IF style_path \in style_files
       THEN /\ Continue("ReadStyle")
            /\ style_css' = FileText(style_path)
       ELSE /\ Raise("ReadStyle", HTTPException(404, "Style file not found"))
            /\ style_css' = style_css
    /\ UNCHANGED <<deployment, global_config, request, api_key, style_path,
                   resume_object, strings, body_html, full_html, response,
                   calls, loads>>

\* strings = load_module(<path of the selected kind>, STRINGS_MODULE_NAME)
LoadTemplate ==
    /\ pc = "LoadTemplate"
    /\ \E loaded \in BOOLEAN :
          IF loaded
          THEN /\ Continue("LoadTemplate")
               /\ strings' = SelectKind(ArgJobDescription(request),
                                        ArgIsCoverLetter(request))
               /\ loads' = loads + 1
          ELSE /\ Raise("LoadTemplate", PyException("prompt module not found"))
               /\ strings' = strings
               /\ loads' = loads
    /\ UNCHANGED <<deployment, global_config, request, api_key, style_path,
                   resume_object, style_css, body_html, full_html, response,
                   calls>>

\* InvokeModel with one retry after a failed call
InvokeModel_retry ==
    /\ pc = "InvokeModel"
    /\ calls' = CompletionCalls(calls)
    /\ \E answered \in BOOLEAN :
          IF answered
          THEN /\ Continue("InvokeModel")
               /\ body_html' = Fragment
          ELSE /\ IF calls = 0
                  THEN /\ steps' = Append(steps, "InvokeModel")
                       /\ UNCHANGED <<pc, exc>>
                  ELSE Raise("InvokeModel", PyException("completion failed"))
               /\ body_html' = body_html
    /\ UNCHANGED <<deployment, global_config, request, api_key, style_path,
                   resume_object, style_css, strings, full_html, response,
                   loads>>

\* gpt_answerer = LLM...(api_key, strings); body_html = gpt_answerer.generate_...()
InvokeModel ==
    /\ pc = "InvokeModel"
    /\ calls' = CompletionCalls(calls)
    /\ \E answered \in BOOLEAN :
          IF answered
          THEN /\ Continue("InvokeModel")
               /\ body_html' = Fragment
          ELSE /\ Raise("InvokeModel", PyException("completion failed"))
               /\ body_html' = body_html
    /\ UNCHANGED <<deployment, global_config, request, api_key, style_path,
                   resume_object, style_css, strings, full_html, response,
                   loads>>

\* full_html = Template(global_config.html_template).substitute(...)
AssemblePage ==
    /\ pc = "AssemblePage"
    /\ \E substituted \in BOOLEAN :
          IF substituted
          THEN /\ Continue("AssemblePage")
               /\ full_html' = Substitute(body_html, style_css)
          ELSE /\ Raise("AssemblePage", PyException("bad placeholder"))
               /\ full_html' = full_html
    /\ UNCHANGED <<deployment, global_config, request, api_key, style_path,
                   resume_object, style_css, strings, body_html, response,
                   calls, loads>>

\* return {"success": True, "html": html, "message": ...}
RespondSuccess ==
    /\ pc = "RespondSuccess"
    /\ response' = [status_code |-> 200, success |-> TRUE, html |-> full_html,
                    message |-> SuccessMessage(request.endpoint)]
    /\ pc' = "Done"
    /\ steps' = Append(steps, "RespondSuccess")
    /\ UNCHANGED <<deployment, global_config, request, locals, exc, calls,
                   loads>>

\* except HTTPException: raise / except Exception as e: raise HTTPException(500)
RespondError ==
    /\ pc = "RespondError"
    /\ LET e == EndpointCatch(exc)
       IN  response' = [status_code |-> e.status_code, success |-> FALSE,
                        html |-> NoHtml, message |-> e.detail]
    /\ pc' = "Done"
    /\ steps' = Append(steps, "RespondError")
    /\ UNCHANGED <<deployment, global_config, request, locals, exc, calls,
                   loads>>

Next ==
    \/ generate_resume
    \/ generate_tailored_resume
    \/ generate_cover_letter
    \/ ValidateInput
    \/ ResolveStyle
    \/ init_global_config
    \/ ParseResume
    \/ ReadStyle
    \/ LoadTemplate
    \/ InvokeModel
    \/ AssemblePage
    \/ RespondSuccess
    \/ RespondError

Spec == Init /\ [][Next]_vars

\* style resolution alone, on every registry and requested name of the bounds
\* and on the example registry: a request that has resolved its key and is
\* about to resolve its style
InitStyle ==
    /\ environ = [OPENAI_API_KEY |-> None, LLM_API_KEY |-> None]
    /\ styles \in Registries \cup MainRegistries
    /\ style_files = RegistryFiles(styles)
    /\ global_config = UnsetConfig
    /\ \E st \in RequestedNames \cup MainStyleNames :
          request = [endpoint |-> "resume", resume_yaml |-> "",
                     job_description |-> None, style |-> st,
                     api_key |-> "request_key"]
    /\ pc = "ResolveStyle"
    /\ api_key = "request_key"
    /\ style_path = NoPath
    /\ resume_object = NoResume
    /\ style_css = NoHtml
    /\ strings = None
    /\ body_html = NoHtml
    /\ full_html = NoHtml
    /\ exc = NoExc
    /\ response = NoResponse
    /\ steps = <<"ReceiveRequest", "ValidateInput">>
    /\ calls = 0
    /\ loads = 0

NextStyle == ResolveStyle

SpecStyle == InitStyle /\ [][NextStyle]_vars

\* ------------------------------------------------------------------ claims

HasStep(step) == \E i \in DOMAIN steps : steps[i] = step

\* the step that raised, when the request ended in the except clauses
FailedStep ==
    IF Len(steps) >= 2 /\ steps[Len(steps)] = "RespondError"
    THEN steps[Len(steps) - 1]
    ELSE "none"

Finished == pc = "Done"

KeyAvailable ==
    \/ Truthy(request.api_key)
    \/ Truthy(environ.OPENAI_API_KEY)
    \/ Truthy(environ.LLM_API_KEY)

\* a deployment whose registry has styles and whose style files all exist
DeploymentOk == styles /= <<>> /\ RegistryFiles(styles) \subseteq style_files

JobDescriptionMissing ==
    /\ request.endpoint \in {"resume-tailored", "cover-letter"}
    /\ ~Truthy(request.job_description)

ResumeInvalid ==
    /\ steps /= <<>>
    /\ request.resume_yaml \in {"", "{{: not yaml", "education_details: []"}

\* C1: in a working deployment, a tailored-resume or cover-letter request whose
\* job_description is empty never invokes the completion service and is
\* answered with 400.
C1_MissingJobDescriptionRejected ==
    (JobDescriptionMissing /\ DeploymentOk) =>
        /\ calls = 0
        /\ Finished => response.status_code = 400

\* C2 as stated: a request whose resume_yaml is empty or does not parse is
\* answered with 400, loads no prompt template and never invokes the
\* completion service.
C2_InvalidResumeIs400 ==
    ResumeInvalid =>
        /\ loads = 0
        /\ calls = 0
        /\ Finished => response.status_code = 400

\* C2 amended: a request whose resume_yaml is empty or does not parse loads no
\* prompt template and never invokes the completion service, and is answered
\* with an error: 400, except 404 when a key is available and the style
\* registry is empty (style resolution comes before parsing).
C2_InvalidResumeRejectedBeforeModel ==
    ResumeInvalid =>
        /\ loads = 0
        /\ calls = 0
        /\ ~HasStep("LoadTemplate")
        /\ ~HasStep("InvokeModel")
        /\ Finished =>
              /\ ~response.success
              /\ response.html = NoHtml
              /\ response.status_code =
                    IF KeyAvailable /\ styles = <<>> THEN 404 ELSE 400

C2_Witness ==
    /\ Finished
    /\ request.resume_yaml = "education_details: []"
    /\ FailedStep = "ParseResume"
    /\ response.status_code = 400

\* C3: a non-empty request key is used whatever the environment holds;
\* otherwise the environment's key is used (OPENAI_API_KEY, then LLM_API_KEY);
\* with no non-empty key anywhere the request ends with 400 and neither
\* resolves a style, nor parses the resume, nor loads a template, nor invokes
\* the completion service.
C3_ApiKeyPriority ==
    HasStep("ValidateInput") =>
        /\ Truthy(request.api_key) =>
              api_key = request.api_key /\ FailedStep /= "ValidateInput"
        /\ (~Truthy(request.api_key) /\ Truthy(environ.OPENAI_API_KEY)) =>
              api_key = environ.OPENAI_API_KEY /\ FailedStep /= "ValidateInput"
        /\ (~Truthy(request.api_key) /\ ~Truthy(environ.OPENAI_API_KEY)
                /\ Truthy(environ.LLM_API_KEY)) =>
              api_key = environ.LLM_API_KEY /\ FailedStep /= "ValidateInput"
        /\ ~KeyAvailable =>
              /\ exc.status_code = 400
              /\ ~HasStep("ResolveStyle")
              /\ ~HasStep("ParseResume")
              /\ ~HasStep("LoadTemplate")
              /\ ~HasStep("InvokeModel")
              /\ calls = 0
              /\ loads = 0
              /\ Finished => response.status_code = 400 /\ ~response.success

C3_Witness ==
    /\ Finished
    /\ response.success
    /\ request.api_key = "request_key"
    /\ environ.OPENAI_API_KEY = "openai_key"
    /\ api_key = "request_key"

\* two characters that differ at most in case
SameLetter(c, d) == c = d \/ {c, d} = {"A", "a"}

\* the requested name occurs in a registered name, case ignored
NameMatches(name, wanted) ==
    \E off \in 0..(Len(name) - Len(wanted)) :
        \A k \in 1..Len(wanted) : SameLetter(name[off + k], wanted[k])

Matching == {i \in DOMAIN styles : NameMatches(styles[i].name, request.style)}

\* C4: with a non-empty registry, get_style_path raises nothing and returns
\* the file of the first registered style whose name contains the requested
\* name, case ignored, and the file of the first registered style when no
\* name contains it.
C4_StyleFirstMatch ==
    (styles /= <<>> /\ HasStep("ResolveStyle")) =>
        /\ exc = NoExc
        /\ pc /= "RespondError"
        /\ IF Matching /= {}
           THEN \E i \in Matching :
                   /\ \A j \in Matching : i <= j
                   /\ style_path = styles[i].file_name
           ELSE style_path = styles[1].file_name

\* the match is not the first entry and differs from the request in case
C4_Witness ==
    /\ HasStep("ResolveStyle")
    /\ Len(styles) = 2
    /\ Matching = {2}
    /\ request.style /= styles[2].name
    /\ style_path = styles[2].file_name

\* C5 as stated: with an empty registry every request ends with 500 and the
\* completion service is not invoked.
C5_EmptyRegistryIs500 ==
    (styles = <<>> /\ Finished) => (response.status_code = 500 /\ calls = 0)

\* C5 amended: with an empty registry every request fails, whatever style it
\* names, without loading a template or invoking the completion service; the
\* answer is the 404 raised by get_style_path, or the 400 of get_api_key when
\* no key is available.
C5_EmptyRegistryIs404 ==
    (styles = <<>> /\ steps /= <<>>) =>
        /\ calls = 0
        /\ loads = 0
        /\ ~HasStep("ParseResume")
        /\ Finished =>
              /\ ~response.success
              /\ response.status_code = IF KeyAvailable THEN 404 ELSE 400

C5_Witness ==
    /\ styles = <<>>
    /\ Finished
    /\ FailedStep = "ResolveStyle"
    /\ response.status_code = 404

SpecOrder ==
    <<"ReceiveRequest", "ValidateInput", "ResolveStyle", "LoadTemplate",
      "ParseResume", "InvokeModel", "AssemblePage", "RespondSuccess">>

CodeOrder ==
    <<"ReceiveRequest", "ValidateInput", "ResolveStyle", "ParseResume",
      "LoadTemplate", "InvokeModel", "AssemblePage", "RespondSuccess">>

IsNamedStep(step) ==
    step = "RespondError" \/ \E i \in DOMAIN SpecOrder : SpecOrder[i] = step

\* the steps of the running request that the state machine names
NamedSteps == SelectSeq(steps, IsNamedStep)

\* tr is a prefix of order, or such a prefix followed by RespondError alone
FollowsOrder(tr, order) ==
    LET n == Len(tr)
    IN  \/ n <= Len(order) /\ tr = SubSeq(order, 1, n)
        \/ /\ n >= 1
           /\ n - 1 <= Len(order)
           /\ tr[n] = "RespondError"
           /\ SubSeq(tr, 1, n - 1) = SubSeq(order, 1, n - 1)

EndsProperly ==
    Finished => steps[Len(steps)] \in {"RespondSuccess", "RespondError"}

\* C6 as stated: the steps run in the order ReceiveRequest, ValidateInput,
\* ResolveStyle, LoadTemplate, ParseResume, InvokeModel, AssemblePage,
\* RespondSuccess, each once, left only for a final RespondError.
C6_SpecStepOrder == FollowsOrder(NamedSteps, SpecOrder) /\ EndsProperly

\* C6 amended: the same with ParseResume before LoadTemplate.
C6_CodeStepOrder == FollowsOrder(NamedSteps, CodeOrder) /\ EndsProperly

C6_Witness == Finished /\ NamedSteps = CodeOrder

\* C7: a request in which a step raised ends with an error response that
\* carries a message and no html; the status is 400 for an invalid resume and
\* for a missing key, 500 for a failed template load and a failed completion
\* call; no step of the request ran twice.
C7_ErrorsMapped ==
    /\ \A i, j \in DOMAIN steps : i /= j => steps[i] /= steps[j]
    /\ (exc /= NoExc /\ Finished) =>
          /\ FailedStep /= "none"
          /\ ~response.success
          /\ response.html = NoHtml
          /\ response.message /= ""
          /\ response.status_code \in {400, 404, 500}
          /\ FailedStep \in {"ParseResume", "ValidateInput"} =>
                response.status_code = 400
          /\ FailedStep \in {"LoadTemplate", "InvokeModel"} =>
                response.status_code = 500
    /\ (Finished /\ response.success) => exc = NoExc

C7_Witness ==
    /\ Finished
    /\ FailedStep = "InvokeModel"
    /\ response.status_code = 500
    /\ response.message = "completion failed"

\* C8: once global_config has been set it keeps its value.
C8_ConfigNeverRewritten ==
    [][global_config.initialized => global_config' = global_config]_vars

\* C9: the completion service is invoked at most once per request; a finished
\* request is either a success whose html is the page made of the model's
\* fragment and the text of the resolved style file, after exactly one
\* invocation, or an error without html; a failed invocation ends the request.
C9_NoPartialSuccess ==
    /\ calls <= 1
    /\ FailedStep = "InvokeModel" => calls = 1
    /\ Finished =>
          \/ /\ response.success
             /\ response.status_code = 200
             /\ calls = 1
             /\ body_html = Fragment
             /\ \E i \in DOMAIN styles :
                   /\ i \in Matching \/ (Matching = {} /\ i = 1)
                   /\ response.html =
                         <<"<html><style>", "/*">> \o styles[i].file_name
                            \o <<"*/", "</style>">> \o body_html \o <<"</html>">>
          \/ /\ ~response.success
             /\ response.status_code /= 200
             /\ response.html = NoHtml

C9_Witness == Finished /\ response.success /\ calls = 1 /\ response.html /= NoHtml

KindOf(endpoint) ==
    CASE endpoint = "resume" -> "BaseResume"
      [] endpoint = "resume-tailored" -> "TailoredResume"
      [] OTHER -> "CoverLetter"

\* C10: a request that reaches the model invocation uses the prompt template
\* of its endpoint's kind.
C10_TemplateOfEndpoint ==
    HasStep("InvokeModel") => strings = KindOf(request.endpoint)

====
